---- MODULE Spec2Model ----
(***************************************************************************)
(* Crawditor: crawl a seed URL, then audit every discovered URL with       *)
(* Lighthouse, one at a time, writing the reports under ./output.          *)
(*                                                                         *)
(* The model follows the complete program (src/unnamed/part_000).  The     *)
(* Node event loop runs one callback at a time, so every handler is one    *)
(* atomic action; the top-level script is split at its statements          *)
(* (validation, clearOutput, crawler.crawl).  Strings are sequences of     *)
(* one-character strings.  Indices are 0-based as in the source, so        *)
(* urls[index] of the source is urls[index + 1] here.                      *)
(***************************************************************************)
EXTENDS Integers, Sequences, FiniteSets, TLC

(***************************************************************************)
(* Bounds                                                                  *)
(***************************************************************************)
MaxUrls == 2        \* longest discovered list the crawler delivers
MaxCrawled == 1     \* longest crawled list the crawler delivers
MaxLen == 3         \* longest string handed to sanatizeURL on its own

(***************************************************************************)
(* Inputs                                                                  *)
(***************************************************************************)
\* "a/b" and "a?b" sanitize to the same key; "c/" loses its trailing dot
U1 == <<"a", "/", "b">>
U2 == <<"a", "?", "b">>
U3 == <<"c", "/">>
URLs == {U1, U2, U3}

\* process.argv[2]: absent, "a.b", "a b", "a.bc", "a.b/"
NoArg == <<>>
Seeds == {NoArg, <<"a", ".", "b">>, <<"a", " ", "b">>,
          <<"a", ".", "b", "c">>, <<"a", ".", "b", "/">>}

SeqsUpTo(S, n) == UNION {[1..k -> S] : k \in 0..n}

\* what the crawler can hand to onFinished; the code only looks at the length
\* of crawled, so one URL (which may also be discovered) fills it
CrawledURLs == {U3}
CrawlResults ==
  [crawled : SeqsUpTo(CrawledURLs, MaxCrawled), discovered : SeqsUpTo(URLs, MaxUrls)]

NoResult == [crawled |-> <<"none">>, discovered |-> <<"none">>]

(***************************************************************************)
(* The output tree: ./output, its sub-directories (by name) and its files  *)
(* (directory name, file name); Root is ./output itself.                   *)
(***************************************************************************)
Root == <<>>
NameLastCrawl == <<"lastCrawl.json">>
NameAuditData == <<"auditData.json">>
NameIndex == <<"index.html">>

File(d, n) == [dir |-> d, name |-> n]

\* an fs.writeFile call: the file, and the audit index it came from (-1: lastCrawl)
Write(d, n, src) == [dir |-> d, name |-> n, src |-> src]

(***************************************************************************)
(* sanatizeURL: "/", "?" and ":" become "."; one trailing "." is dropped.  *)
(***************************************************************************)
ReplaceChar(c) == IF c \in {"/", "?", ":"} THEN "." ELSE c

sanatizeURL(url) ==
  LET r == [i \in 1..Len(url) |-> ReplaceChar(url[i])]
  IN  IF Len(r) > 0 /\ r[Len(r)] = "." THEN SubSeq(r, 1, Len(r) - 1) ELSE r

\* the states ./output can be in when the program starts
RootMissing == [exists |-> FALSE, dirs |-> {}, files |-> {}]
RootEmpty == [exists |-> TRUE, dirs |-> {}, files |-> {}]
RootPopulated ==
  [exists |-> TRUE,
   dirs |-> {sanatizeURL(U1)},
   files |-> {File(Root, NameIndex), File(Root, NameLastCrawl),
              File(sanatizeURL(U1), NameAuditData)}]
InitialRoots == {RootMissing, RootEmpty, RootPopulated}

(***************************************************************************)
(* The seed check.  !process.argv[2] is true for an absent (or empty)      *)
(* argument.  The pattern is                                               *)
(*   (?:http(s)?:\/\/)?  A+  (?: \. A+ )+  B+      A = [\w.-]              *)
(* unanchored, so the optional scheme never decides whether it matches.    *)
(***************************************************************************)
WordChars == {"a", "b", "c"}
ClassA == WordChars \cup {".", "-"}
ClassB == ClassA \cup {"_", "~", ":", "/", "?", "#", "[", "]", "@", "!", "$",
                       "&", "'", "(", ")", "*", "+", ",", ";", "="}

\* positions reached after A+ read from position i
APlusEnds(s, i) ==
  {j \in (i + 1)..(Len(s) + 1) : \A k \in i..(j - 1) : s[k] \in ClassA}

\* positions reached after one group \.A+ read from position i
GroupEnds(s, i) == IF i <= Len(s) /\ s[i] = "." THEN APlusEnds(s, i + 1) ELSE {}

RECURSIVE GroupStar(_, _, _)
GroupStar(s, P, n) ==
  LET Q == P \cup UNION {GroupEnds(s, p) : p \in P}
  IN  IF n = 0 \/ Q = P THEN P ELSE GroupStar(s, Q, n - 1)

\* positions reached after one or more groups read from position i
GroupPlusEnds(s, i) == GroupStar(s, GroupEnds(s, i), Len(s))

MatchesUrlPattern(s) ==
  \E i \in 1..Len(s) : \E j \in APlusEnds(s, i) : \E k \in GroupPlusEnds(s, j) :
    k <= Len(s) /\ s[k] \in ClassB

(***************************************************************************)
(* save(filename, data): what it does with each kind of data.              *)
(***************************************************************************)
DataKinds == {"object", "string", "emptyString", "number", "zero", "true",
              "false", "null", "undefined"}
Falsy(d) == d \in {"emptyString", "zero", "false", "null", "undefined"}
TypeOf(d) ==
  CASE d \in {"object", "null"} -> "object"
    [] d \in {"string", "emptyString"} -> "string"
    [] d \in {"number", "zero"} -> "number"
    [] d \in {"true", "false"} -> "boolean"
    [] OTHER -> "undefined"

\* the check for essentials is missing
SaveOutcome_noGuard(filename, d) ==
  IF TypeOf(d) = "object" \/ TypeOf(d) = "string" THEN "write" ELSE "unable"

\* "throw": the guard throws; "write": fs.writeFile is started;
\* "unable": "Unable to save data." is printed and nothing is written
SaveOutcome(filename, d) ==
  IF Falsy(d) \/ filename = <<>> THEN "throw"
  ELSE IF TypeOf(d) = "object" \/ TypeOf(d) = "string" THEN "write"
  ELSE "unable"

(***************************************************************************)
(* State                                                                   *)
(***************************************************************************)
VARIABLES
  pc,            \* "start", "validated", "cleared", "crawling", "finished", "exited"
  exitCode,      \* -1 while the process runs
  seed,          \* process.argv[2]
  root0,         \* ./output as it was when the process started
  rootExists,    \* ./output exists
  dirs,          \* names of the sub-directories of ./output
  files,         \* files that exist under ./output
  clearCount,    \* calls of clearOutput
  reported,      \* kinds of console messages printed so far
  fetchErrors,   \* calls of crawlerError
  result,        \* the object handed to crawlerFinished
  urls,          \* the array auditAll walks
  index,         \* the index of the latest auditAll call
  inFlight,      \* indices whose audit promise is pending
  auditLog,      \* indices in the order audit() was called
  failed,        \* indices whose audit promise rejected
  writing,       \* fs.writeFile calls whose callback has not fired
  completed,     \* fs.writeFile calls whose callback fired without error
  completeCount, \* times "Auditing complete." was reached
  indexCount,    \* calls of makeAuditsIndex
  indexLinks,    \* the entries linked by ./output/index.html
  indexSeen      \* what makeAuditsIndex found of the audit queue when it ran

\* one function of the program called on its own
VARIABLES
  fnName,        \* "none", "sanatizeURL", "save" or "args"
  fnArgs,        \* the arguments of the call
  fnOut          \* the results so far, oldest first

mainVars == <<pc, exitCode, seed, root0, rootExists, dirs, files, clearCount,
              reported, fetchErrors, result, urls, index, inFlight, auditLog,
              failed, writing, completed, completeCount, indexCount,
              indexLinks, indexSeen>>
fnVars == <<fnName, fnArgs, fnOut>>
vars == <<mainVars, fnVars>>

fsVars == <<rootExists, dirs, files>>
auditVars == <<urls, index, inFlight, auditLog, failed, completeCount>>
indexVars == <<indexCount, indexLinks, indexSeen>>

NotBuilt == [inFlight |-> {}, completeCount |-> -1]

\* the process starts with seed s as argv[2] and ./output as r0
InitMain(s, r0) ==
  /\ pc = "start"
  /\ exitCode = -1
  /\ seed = s
  /\ root0 = r0
  /\ rootExists = root0.exists
  /\ dirs = root0.dirs
  /\ files = root0.files
  /\ clearCount = 0
  /\ reported = {}
  /\ fetchErrors = 0
  /\ result = NoResult
  /\ urls = <<>>
  /\ index = 0
  /\ inFlight = {}
  /\ auditLog = <<>>
  /\ failed = {}
  /\ writing = {}
  /\ completed = {}
  /\ completeCount = 0
  /\ indexCount = 0
  /\ indexLinks = {}
  /\ indexSeen = NotBuilt

Init ==
  /\ \E s \in Seeds : \E r0 \in InitialRoots : InitMain(s, r0)
  /\ fnName = "none"
  /\ fnArgs = <<>>
  /\ fnOut = <<>>


(***************************************************************************)
(* Helpers of the handlers                                                 *)
(***************************************************************************)
Range(q) == {q[i] : i \in 1..Len(q)}

\* the pattern check is left out
SeedCheck_noPattern(s) == IF s = NoArg THEN "noUrl" ELSE ""

\* the seed checks of the top-level script: the message printed, "" if it passes
SeedCheck(s) ==
  IF s = NoArg THEN "noUrl"
  ELSE IF ~MatchesUrlPattern(s) THEN "badUrl"
  ELSE ""

\* the guard tests the discovered list the wrong way round
EmptyResult_wrongTest(r) == Len(r.crawled) = 0 /\ Len(r.discovered) # 0

\* the guard of crawlerFinished
EmptyResult(r) == Len(r.crawled) = 0 /\ Len(r.discovered) = 0

\* the directories saveLastCrawl creates
DiscoveredKeys(r) == {sanatizeURL(r.discovered[i]) : i \in 1..Len(r.discovered)}

\* auditAll starts every remaining audit at once
AuditAllStarts_bulk(us, i) ==
  IF i < Len(us) THEN [k \in 1..(Len(us) - i) |-> i + k - 1] ELSE <<>>

\* auditAll(us, i): the indices whose audit it starts before it returns
AuditAllStarts(us, i) == IF i < Len(us) THEN <<i>> ELSE <<>>

\* auditAll(us, i): whether it reaches "Auditing complete."
AuditAllCompletes(us, i) == ~(i < Len(us))

\* save(<d>/<n>, data) called for audit src: the fs.writeFile calls it starts
SaveWrites(d, n, src, data) ==
  IF SaveOutcome(n, data) = "write" THEN {Write(d, n, src)} ELSE {}

\* the then-callback of audit(us[i]) forgets the rendered report
ReportWrites_onlyJson(us, i) ==
  SaveWrites(sanatizeURL(us[i + 1]), NameAuditData, i, "object")

\* the then-callback files every report under the key of the first URL
ReportWrites_firstKey(us, i) ==
  LET key == sanatizeURL(us[1])
  IN  SaveWrites(key, NameAuditData, i, "object")
        \cup SaveWrites(key, NameIndex, i, "string")

\* the save calls of the then-callback of audit(us[i]): results.json is the
\* report object, results.html the rendered report
ReportWrites(us, i) ==
  LET key == sanatizeURL(us[i + 1])
  IN  SaveWrites(key, NameAuditData, i, "object")
        \cup SaveWrites(key, NameIndex, i, "string")

\* fs.readdirSync("./output"): every entry of the root, file or directory
readDirs(ds, fs) == ds \cup {f.name : f \in {g \in fs : g.dir = Root}}

(***************************************************************************)
(* The top-level script                                                    *)
(***************************************************************************)
ValidateSeed ==
  /\ pc = "start"
  /\ IF SeedCheck(seed) # ""
       THEN /\ reported' = reported \cup {SeedCheck(seed)}
            /\ pc' = "exited"
            /\ exitCode' = 1
       ELSE /\ pc' = "validated"
            /\ UNCHANGED <<reported, exitCode>>
  /\ UNCHANGED <<seed, root0, fsVars, clearCount, fetchErrors, result,
                 auditVars, writing, completed, indexVars>>
  /\ UNCHANGED fnVars

\* rimraf.sync("./output/*"): the entries go, ./output itself stays as it was
clearOutput ==
  /\ pc = "validated"
  /\ pc' = "cleared"
  /\ reported' = reported \cup {"clearing"}
  /\ clearCount' = clearCount + 1
  /\ dirs' = {}
  /\ files' = {}
  /\ UNCHANGED <<exitCode, seed, root0, rootExists, fetchErrors, result,
                 auditVars, writing, completed, indexVars>>
  /\ UNCHANGED fnVars

Crawl ==
  /\ pc = "cleared"
  /\ pc' = "crawling"
  /\ UNCHANGED <<exitCode, seed, root0, fsVars, clearCount, reported,
                 fetchErrors, result, auditVars, writing, completed, indexVars>>
  /\ UNCHANGED fnVars

(***************************************************************************)
(* The crawler's callbacks                                                 *)
(***************************************************************************)
\* the handler saves the partial crawl after every fetched page
crawlerSuccess_savesPartial ==
  /\ pc = "crawling"
  /\ reported' = reported \cup {"continuing"}
  /\ writing' = writing \cup SaveWrites(Root, NameLastCrawl, -1, "object")
  /\ UNCHANGED <<pc, exitCode, seed, root0, fsVars, clearCount, fetchErrors,
                 result, auditVars, completed, indexVars>>
  /\ UNCHANGED fnVars

crawlerSuccess ==
  /\ pc = "crawling"
  /\ reported' = reported \cup {"continuing"}
  /\ UNCHANGED <<pc, exitCode, seed, root0, fsVars, clearCount, fetchErrors,
                 result, auditVars, writing, completed, indexVars>>
  /\ UNCHANGED fnVars

\* the handler only reports the failure
crawlerError_noExit ==
  /\ pc = "crawling"
  /\ reported' = reported \cup {"crawlError"}
  /\ fetchErrors' = 1
  /\ UNCHANGED <<pc, exitCode, seed, root0, fsVars, clearCount, result,
                 auditVars, writing, completed, indexVars>>
  /\ UNCHANGED fnVars

crawlerError ==
  /\ pc = "crawling"
  /\ reported' = reported \cup {"crawlError"}
  /\ fetchErrors' = fetchErrors + 1
  /\ pc' = "exited"
  /\ exitCode' = 1
  /\ UNCHANGED <<seed, root0, fsVars, clearCount, result, auditVars, writing,
                 completed, indexVars>>
  /\ UNCHANGED fnVars

\* crawlerFinished with saveLastCrawl and all it calls: the mkdirSync loop,
\* save("lastCrawl.json"), auditAll(discovered, 0) and makeAuditsIndex().
\* early: the pending write of lastCrawl.json has already created the file
\* when readdirSync runs (the write is carried out off the main thread).
crawlerFinished(r, early) ==
  /\ pc = "crawling"
  /\ result' = r
  /\ IF EmptyResult(r)
       THEN /\ reported' = reported \cup {"empty"}
            /\ pc' = "finished"
            /\ UNCHANGED <<exitCode, fsVars, auditVars, writing, indexVars>>
       ELSE IF DiscoveredKeys(r) # {} /\ ~rootExists
       \* mkdirSync("./output/<key>") throws ENOENT: the handler is left
       THEN /\ reported' = reported \cup {"ENOENT"}
            /\ pc' = "exited"
            /\ exitCode' = 1
            /\ UNCHANGED <<fsVars, auditVars, writing, indexVars>>
       ELSE LET dirs1 == dirs \cup DiscoveredKeys(r)
                starts == AuditAllStarts(r.discovered, 0)
                done == AuditAllCompletes(r.discovered, 0)
                files1 == IF early THEN files \cup {File(Root, NameLastCrawl)}
                          ELSE files
            IN  /\ dirs' = dirs1
                /\ rootExists' = TRUE
                /\ writing' = writing \cup SaveWrites(Root, NameLastCrawl, -1, "object")
                /\ urls' = r.discovered
                /\ index' = 0
                /\ inFlight' = inFlight \cup Range(starts)
                /\ auditLog' = auditLog \o starts
                /\ completeCount' = completeCount + (IF done THEN 1 ELSE 0)
                /\ reported' = reported \cup (IF done THEN {"complete"} ELSE {})
                /\ indexLinks' = readDirs(dirs1, files1)
                /\ files' = files1 \cup {File(Root, NameIndex)}
                /\ indexCount' = indexCount + 1
                /\ indexSeen' = [inFlight |-> inFlight',
                                 completeCount |-> completeCount']
                /\ pc' = "finished"
                /\ UNCHANGED <<exitCode, failed>>
  /\ UNCHANGED <<seed, root0, clearCount, fetchErrors, completed>>
  /\ UNCHANGED fnVars

(***************************************************************************)
(* The audit queue                                                         *)
(***************************************************************************)
\* the then-callback of audit(urls[i]): two saves, then auditAll(urls, i + 1)
AuditResolve(i) ==
  /\ pc = "finished"
  /\ i \in inFlight
  /\ LET starts == AuditAllStarts(urls, i + 1)
         done == AuditAllCompletes(urls, i + 1)
     IN  /\ writing' = writing \cup ReportWrites(urls, i)
         /\ index' = i + 1
         /\ inFlight' = (inFlight \ {i}) \cup Range(starts)
         /\ auditLog' = auditLog \o starts
         /\ completeCount' = completeCount + (IF done THEN 1 ELSE 0)
         /\ reported' = reported \cup (IF done THEN {"complete"} ELSE {})
  /\ UNCHANGED <<pc, exitCode, seed, root0, fsVars, clearCount, fetchErrors,
                 result, urls, failed, completed, indexVars>>
  /\ UNCHANGED fnVars

\* audit(urls[i]) rejects: the chain has no rejection handler.  crash: the
\* runtime ends the process on an unhandled rejection (otherwise it warns).
AuditReject(i, crash) ==
  /\ pc = "finished"
  /\ i \in inFlight
  /\ inFlight' = inFlight \ {i}
  /\ failed' = failed \cup {i}
  /\ reported' = reported \cup {"unhandledRejection"}
  /\ IF crash
       THEN pc' = "exited" /\ exitCode' = 1
       ELSE UNCHANGED <<pc, exitCode>>
  /\ UNCHANGED <<seed, root0, fsVars, clearCount, fetchErrors, result, urls,
                 index, auditLog, completeCount, writing, completed, indexVars>>
  /\ UNCHANGED fnVars

\* the callback of fs.writeFile; the default callback of save rethrows err
WriteDone(w, ok) ==
  /\ pc = "finished"
  /\ w \in writing
  /\ writing' = writing \ {w}
  /\ IF ok
       THEN /\ files' = files \cup {File(w.dir, w.name)}
            /\ completed' = completed \cup {w}
            /\ reported' = reported \cup {"saved"}
            /\ UNCHANGED <<pc, exitCode>>
       ELSE /\ reported' = reported \cup {"writeError"}
            /\ pc' = "exited"
            /\ exitCode' = 1
            /\ UNCHANGED <<files, completed>>
  /\ UNCHANGED <<seed, root0, rootExists, dirs, clearCount, fetchErrors,
                 result, auditVars, indexVars>>
  /\ UNCHANGED fnVars

\* nothing is pending any more: the process ends with code 0
ProcessExit ==
  /\ pc = "finished"
  /\ inFlight = {}
  /\ writing = {}
  /\ pc' = "exited"
  /\ exitCode' = 0
  /\ UNCHANGED <<seed, root0, fsVars, clearCount, reported, fetchErrors,
                 result, auditVars, writing, completed, indexVars>>
  /\ UNCHANGED fnVars

Next ==
  \/ ValidateSeed
  \/ clearOutput
  \/ Crawl
  \/ crawlerSuccess
  \/ crawlerError
  \/ \E r \in CrawlResults : \E early \in BOOLEAN : crawlerFinished(r, early)
  \/ \E i \in inFlight : AuditResolve(i)
  \/ \E i \in inFlight : \E crash \in BOOLEAN : AuditReject(i, crash)
  \/ \E w \in writing : \E ok \in BOOLEAN : WriteDone(w, ok)
  \/ ProcessExit

Spec == Init /\ [][Next]_vars

(***************************************************************************)
(* The depth and threads arguments (process.argv[3], process.argv[4]).     *)
(* A value is kept with its type: the defaults are numbers, an accepted    *)
(* argument is handed on as the string it is.                              *)
(***************************************************************************)
Digits == {"0", "1", "2", "3", "4", "5", "6", "7", "8", "9"}

\* \w over the characters of the arguments
ArgWord == Digits \cup WordChars \cup {"_"}

IsWordAt(s, i) == i \in 1..Len(s) /\ s[i] \in ArgWord

\* \b between positions i - 1 and i
Boundary(s, i) == IsWordAt(s, i - 1) # IsWordAt(s, i)

\* /\b(10|[1-9])\b/ finds a match in s
DepthMatch(s) ==
  \E i \in 1..Len(s) :
    /\ Boundary(s, i)
    /\ \/ i + 1 <= Len(s) /\ s[i] = "1" /\ s[i + 1] = "0" /\ Boundary(s, i + 2)
       \/ s[i] \in Digits \ {"0"} /\ Boundary(s, i + 1)

\* /[1-5]/ finds a match in s
ThreadsMatch(s) == \E i \in 1..Len(s) : s[i] \in {"1", "2", "3", "4", "5"}

Num(text) == [type |-> "number", text |-> text]
Str(text) == [type |-> "string", text |-> text]

\* the depth handed to the crawler for argv[3] = a (NoArg: absent)
ParseDepth(a) == IF a # NoArg /\ DepthMatch(a) THEN Str(a) ELSE Num(<<"1">>)

\* the thread count handed to the crawler for argv[4] = a
ParseThreads(a) == IF a # NoArg /\ ThreadsMatch(a) THEN Str(a) ELSE Num(<<"5">>)

(***************************************************************************)
(* The functions called on their own, on inputs of every kind              *)
(***************************************************************************)
SanAlphabet == {"/", "?", ":", ".", "a"}
SanInputs == SeqsUpTo(SanAlphabet, MaxLen)

\* an absent filename, and a filename
SaveInputs == [filename : {<<>>, NameLastCrawl}, data : DataKinds]

\* absent, "1", "5", "10", "0", "11", "-3", "1.5"
DepthArgs == {NoArg, <<"1">>, <<"5">>, <<"1", "0">>, <<"0">>, <<"1", "1">>,
              <<"-", "3">>, <<"1", ".", "5">>}
\* absent, "1", "5", "0", "6", "15", "51"
ThreadArgs == {NoArg, <<"1">>, <<"5">>, <<"0">>, <<"6">>, <<"1", "5">>,
               <<"5", "1">>}
ArgInputs == [depth : DepthArgs, threads : ThreadArgs]

\* what save does with the data: stringified, as it is, or not written
SavedText(d) ==
  IF TypeOf(d) = "object" THEN "serialized"
  ELSE IF TypeOf(d) = "string" THEN "verbatim"
  ELSE "none"

FnInit ==
  /\ InitMain(NoArg, RootEmpty)
  /\ fnOut = <<>>
  /\ \/ fnName = "sanatizeURL" /\ fnArgs \in SanInputs
     \/ fnName = "save" /\ fnArgs \in SaveInputs
     \/ fnName = "args" /\ fnArgs \in ArgInputs

\* sanatizeURL on the input, then on its own result
CallSanatizeURL ==
  /\ fnName = "sanatizeURL"
  /\ Len(fnOut) < 2
  /\ fnOut' = Append(fnOut, sanatizeURL(IF fnOut = <<>> THEN fnArgs
                                        ELSE fnOut[Len(fnOut)]))
  /\ UNCHANGED <<mainVars, fnName, fnArgs>>

CallSave ==
  /\ fnName = "save"
  /\ fnOut = <<>>
  /\ LET outcome == SaveOutcome(fnArgs.filename, fnArgs.data)
     IN  fnOut' = <<[outcome |-> outcome,
                     text |-> IF outcome = "write" THEN SavedText(fnArgs.data)
                              ELSE "none",
                     writes |-> SaveWrites(Root, fnArgs.filename, -1,
                                           fnArgs.data)]>>
  /\ UNCHANGED <<mainVars, fnName, fnArgs>>

\* lines 21-31 of the script
ParseArgs ==
  /\ fnName = "args"
  /\ fnOut = <<>>
  /\ fnOut' = <<[depth |-> ParseDepth(fnArgs.depth),
                 threads |-> ParseThreads(fnArgs.threads)]>>
  /\ UNCHANGED <<mainVars, fnName, fnArgs>>

FnNext == CallSanatizeURL \/ CallSave \/ ParseArgs

FnSpec == FnInit /\ [][FnNext]_vars


(***************************************************************************)
(* Properties                                                              *)
(***************************************************************************)
\* the crawl handed over a non-empty result and saveLastCrawl ran through
HandedOff == pc = "finished" /\ ~(result.crawled = <<>> /\ result.discovered = <<>>)

\* the audit queue has nothing left to wait for
Quiet == HandedOff /\ inFlight = {} /\ writing = {}

Indices == 0..(Len(urls) - 1)

Calls(i) == Cardinality({k \in 1..Len(auditLog) : auditLog[k] = i})

AuditDataOf(i) == Write(sanatizeURL(urls[i + 1]), NameAuditData, i)
ReportOf(i) == Write(sanatizeURL(urls[i + 1]), NameIndex, i)

\* C1: at most one audit is in flight at any time, and it is the one started
\* last: the audit of urls[i+1] is not started while that of urls[i] is pending.
C1_OneAuditInFlight ==
  /\ Cardinality(inFlight) <= 1
  /\ \A i \in inFlight : auditLog[Len(auditLog)] = i

C1_Witness == inFlight = {1} /\ failed = {} /\ Len(urls) = 2

\* C2: per-item isolation: once the queue has nothing left to wait for, every
\* URL has been audited exactly once, every audit that succeeded has its two
\* report files, and completion was reached, whichever audits failed.
C2_PerItemIsolation ==
  Quiet =>
    /\ \A i \in Indices : Calls(i) = 1
    /\ \A i \in Indices \ failed : {AuditDataOf(i), ReportOf(i)} \subseteq completed
    /\ completeCount = 1

\* C3 as claimed: an audit other than the first starts only when both report
\* writes of the audit before it have had their callbacks.
C3_StartsAfterWritesDone ==
  [][\A j \in inFlight' \ inFlight :
       j > 0 => {AuditDataOf(j - 1), ReportOf(j - 1)} \subseteq completed]_vars

\* C3: an audit other than the first starts only when both report writes of
\* the audit before it have been started (they may still be pending).
C3_StartsAfterWritesIssued ==
  [][\A j \in inFlight' \ inFlight :
       j > 0 => {Write(sanatizeURL(urls[j]), NameAuditData, j - 1),
                 Write(sanatizeURL(urls[j]), NameIndex, j - 1)}
                  \subseteq (writing' \cup completed')]_vars

C3_Witness ==
  /\ inFlight = {1}
  /\ {AuditDataOf(0), ReportOf(0)} \subseteq writing

\* C4: the index is built once per run that reaches the audit phase, and when
\* it is built the queue has signalled completion and no audit is in flight.
C4_IndexAfterCompletion ==
  /\ indexCount <= 1
  /\ HandedOff => indexCount = 1
  /\ indexCount = 1 => indexSeen.completeCount = 1 /\ indexSeen.inFlight = {}

\* C5: completion is signalled at most once, only when auditAll has reached
\* the end of the list with every audit resolved, and it has been signalled
\* once the queue has nothing left to wait for.
C5_CompletionOnce ==
  /\ completeCount <= 1
  /\ completeCount = 1 => index = Len(urls) /\ inFlight = {} /\ Len(auditLog) = Len(urls)
  /\ Quiet => completeCount = 1

\* C6: whatever ./output was at the start, once the finished event of a
\* non-empty crawl has been handled every discovered URL has its directory,
\* and the directory step did not fail.
C6_DirsPrecreated ==
  (result # NoResult /\ ~(result.crawled = <<>> /\ result.discovered = <<>>)) =>
    /\ \A k \in 1..Len(result.discovered) : sanatizeURL(result.discovered[k]) \in dirs
    /\ "ENOENT" \notin reported

\* C7: the index links exactly the sub-directories of ./output, and no file.
C7_IndexLinksOnlyDirs == indexCount > 0 => indexLinks = dirs

\* C8 as claimed: a fetch failure does not end the run.
C8_FetchFailureRecovered == fetchErrors > 0 => ~(pc = "exited" /\ exitCode = 1)

\* C8: a fetch failure ends the run at once with exit code 1: the finished
\* event is never handled, nothing is written and no audit starts.
C8_FetchFailureExits ==
  fetchErrors > 0 =>
    /\ pc = "exited" /\ exitCode = 1
    /\ result = NoResult
    /\ writing = {} /\ completed = {} /\ files = {} /\ dirs = {}
    /\ auditLog = <<>> /\ indexCount = 0

C8_Witness == fetchErrors > 0 /\ "continuing" \in reported

\* C9: after an empty crawl result the condition is reported and nothing else
\* happens: no audit, no index, no directory, no lastCrawl.json, no error exit.
C9_EmptyResultSkipsAll ==
  (result.crawled = <<>> /\ result.discovered = <<>>) =>
    /\ "empty" \in reported
    /\ auditLog = <<>> /\ inFlight = {} /\ completeCount = 0
    /\ indexCount = 0
    /\ dirs = {} /\ files = {}
    /\ writing = {} /\ completed = {}
    /\ exitCode \in {-1, 0}

C9_Witness ==
  result.crawled = <<>> /\ result.discovered = <<>> /\ pc = "exited" /\ exitCode = 0

\* C10: ./output is cleared once, after the seed check has passed and before
\* the crawl starts and anything is written; with an absent or invalid seed
\* the process exits with code 1 and ./output is as it was.
C10_ClearedOnceAfterValidation ==
  /\ clearCount <= 1
  /\ pc \in {"start", "validated"} => clearCount = 0
  /\ pc \in {"cleared", "crawling", "finished"} => clearCount = 1
  /\ clearCount = 1 => seed \in {<<"a", ".", "b", "c">>, <<"a", ".", "b", "/">>}
  /\ clearCount = 0 =>
       /\ fetchErrors = 0 /\ result = NoResult
       /\ writing = {} /\ completed = {} /\ indexCount = 0
       /\ rootExists = root0.exists /\ dirs = root0.dirs /\ files = root0.files
  /\ (seed \in {NoArg, <<"a", ".", "b">>, <<"a", " ", "b">>} /\ pc # "start") =>
       /\ pc = "exited" /\ exitCode = 1
       /\ clearCount = 0

C10_Witness ==
  clearCount = 1 /\ pc = "cleared" /\ root0 = RootPopulated /\ files = {} /\ dirs = {}


\* every write started so far
Issued == writing \cup completed

\* C11: a run that ended with a non-empty crawl result, no failed audit and no
\* failed write has left lastCrawl.json, both report files in the directory
\* of every discovered URL, and a root index.html linking each directory.
C11_CompleteTree ==
  (/\ pc = "exited"
   /\ result # NoResult
   /\ ~(result.crawled = <<>> /\ result.discovered = <<>>)
   /\ failed = {}
   /\ "writeError" \notin reported) =>
    /\ File(Root, NameLastCrawl) \in files
    /\ File(Root, NameIndex) \in files
    /\ \A k \in 1..Len(result.discovered) :
         LET key == sanatizeURL(result.discovered[k])
         IN  /\ key \in dirs
             /\ File(key, NameAuditData) \in files
             /\ File(key, NameIndex) \in files
             /\ key \in indexLinks

\* C16: audits are called in list order, each index at most once, and the two
\* reports of the audit of urls[i] go to auditData.json and index.html under
\* sanatizeURL(urls[i]) and nowhere else.
C16_InOrderUnderOwnKey ==
  /\ \A k \in 1..Len(auditLog) : auditLog[k] = k - 1
  /\ \A w \in Issued :
       w.src >= 0 =>
         /\ w.src \in Range(auditLog)
         /\ w.dir = sanatizeURL(urls[w.src + 1])
         /\ w.name \in {NameAuditData, NameIndex}

C16_Witness ==
  /\ Len(urls) = 2
  /\ sanatizeURL(urls[1]) # sanatizeURL(urls[2])
  /\ {AuditDataOf(0), ReportOf(0), AuditDataOf(1), ReportOf(1)} \subseteq completed

\* C17: no file is written twice in a run, so no two writes of one file are
\* ever pending together, and the root index.html is written once.
C17_EveryFileWrittenOnce ==
  /\ indexCount <= 1
  /\ \A w1, w2 \in Issued : (w1.dir = w2.dir /\ w1.name = w2.name) => w1 = w2

\* C18: before the finished event has been handled nothing is written, no
\* directory is created and no audit is called; the write of lastCrawl.json
\* is started only by the handler of that event, and only once.
C18_NothingBeforeFinished ==
  /\ [](result = NoResult =>
          /\ Issued = {} /\ auditLog = <<>> /\ inFlight = {} /\ indexCount = 0
          /\ clearCount = 1 => dirs = {} /\ files = {})
  /\ [][Write(Root, NameLastCrawl, -1) \in writing' =>
          \/ Write(Root, NameLastCrawl, -1) \in writing
          \/ (result = NoResult /\ result' # NoResult /\ Issued = {})]_vars
  /\ [][/\ dirs' \ dirs # {} => (result = NoResult /\ result' # NoResult)
        /\ auditLog' # auditLog => result' # NoResult
        /\ (auditLog = <<>> /\ auditLog' # <<>>) => result = NoResult]_vars

C18_Witness ==
  /\ pc = "finished"
  /\ Write(Root, NameLastCrawl, -1) \in completed
  /\ auditLog = <<0>>
  /\ "continuing" \in reported


EndsWithDot(t) == Len(t) > 0 /\ t[Len(t)] = "."

\* C12: sanatizeURL gives the same again when applied to its own result, and
\* its result has no "/", "?" or ":" and does not end with ".".
C12_SanatizeIdempotent ==
  (fnName = "sanatizeURL" /\ Len(fnOut) = 2) =>
    /\ fnOut[2] = fnOut[1]
    /\ \A i \in 1..Len(fnOut[1]) : fnOut[1][i] \notin {"/", "?", ":"}
    /\ ~EndsWithDot(fnOut[1])

\* C13 as claimed: save never throws on its data: an object is serialized and
\* written, every string is written as it is, anything else is reported as
\* not savable and nothing is written.
C13_SaveNeverThrows ==
  (fnName = "save" /\ fnOut # <<>> /\ fnArgs.filename # <<>>) =>
    LET d == fnArgs.data
        o == fnOut[1]
    IN  /\ o.outcome # "throw"
        /\ d = "object" => o.outcome = "write" /\ o.text = "serialized"
        /\ d \in {"string", "emptyString"} =>
             o.outcome = "write" /\ o.text = "verbatim"
        /\ d \in {"number", "zero", "true", "false", "null", "undefined"} =>
             o.outcome = "unable" /\ o.writes = {}

\* C13: save throws on falsy data (empty string, 0, false, null, undefined)
\* and on an empty filename, writing nothing; otherwise an object is
\* serialized and written, a string is written as it is, and other data
\* (a non-zero number, true) is reported as not savable, nothing written.
C13_SaveByDataKind ==
  (fnName = "save" /\ fnOut # <<>>) =>
    LET d == fnArgs.data
        f == fnArgs.filename
        o == fnOut[1]
    IN  /\ (f = <<>> \/ d \in {"emptyString", "zero", "false", "null", "undefined"})
             => o.outcome = "throw" /\ o.writes = {} /\ o.text = "none"
        /\ (f # <<>> /\ d = "object") =>
             o.outcome = "write" /\ o.text = "serialized"
               /\ o.writes = {Write(Root, f, -1)}
        /\ (f # <<>> /\ d = "string") =>
             o.outcome = "write" /\ o.text = "verbatim"
               /\ o.writes = {Write(Root, f, -1)}
        /\ (f # <<>> /\ d \in {"number", "true"}) =>
             o.outcome = "unable" /\ o.writes = {} /\ o.text = "none"

C13_Witness ==
  /\ fnName = "save"
  /\ fnOut # <<>>
  /\ fnArgs = [filename |-> NameLastCrawl, data |-> "zero"]
  /\ fnOut[1].outcome = "throw"

\* C14: whatever the two arguments are, the depth handed to the crawler is
\* one of 1..10 and the thread count one of 1..5, and an absent or
\* out-of-range argument gives the default, depth 1 and 5 threads.
C14_ArgsInRange ==
  (fnName = "args" /\ fnOut # <<>>) =>
    /\ fnOut[1].depth.text \in
         {<<"1">>, <<"2">>, <<"3">>, <<"4">>, <<"5">>, <<"6">>, <<"7">>,
          <<"8">>, <<"9">>, <<"1", "0">>}
    /\ fnOut[1].threads.text \in {<<"1">>, <<"2">>, <<"3">>, <<"4">>, <<"5">>}
    /\ fnArgs.depth \in {NoArg, <<"0">>, <<"1", "1">>, <<"-", "3">>, <<"1", ".", "5">>}
         => fnOut[1].depth = Num(<<"1">>)
    /\ fnArgs.threads \in {NoArg, <<"0">>, <<"6">>, <<"1", "5">>, <<"5", "1">>}
         => fnOut[1].threads = Num(<<"5">>)

====
